---- MODULE Spec2Model ----
(***************************************************************************)
(* winpipe: a relay between the local console and a named pipe.            *)
(*                                                                         *)
(* The model follows src/src/main.rs (main and the two pumps,              *)
(* stdin_to_pipe and pipe_to_stdout), src/src/console.rs (Console),        *)
(* src/src/named_pipe.rs (NamedPipe) and src/src/logger.rs (setup_logger). *)
(* The operating system is the environment: every system call the code     *)
(* makes may succeed or fail, console input and channel data arrive at any *)
(* time, and the peer may disconnect at any time.                          *)
(***************************************************************************)
EXTENDS Integers, Sequences, FiniteSets, TLC

(***************************************************************************)
(* Bounds of the model.                                                    *)
(***************************************************************************)
\* number of bytes the user types at the console during a run
MaxStdin == 2
\* number of bytes the peer sends on the channel during a run
MaxChan == 2
\* number of open attempts the environment answers before the run is cut
MaxOpenAttempts == 2

(***************************************************************************)
(* Program constants.                                                      *)
(***************************************************************************)
\* console.rs:28
UNICODE_UTF8_CP_ID == 65001
\* main.rs:47, the size of the buffer handed to Console::read
StdinBufLen == 1024

(***************************************************************************)
(* Console modes are sets of flags; the bit operations of console.rs are   *)
(* the corresponding set operations over the 32-bit universe AllBits.      *)
(***************************************************************************)
InputFlags == {"ENABLE_PROCESSED_INPUT", "ENABLE_LINE_INPUT", "ENABLE_ECHO_INPUT",
               "ENABLE_WINDOW_INPUT", "ENABLE_MOUSE_INPUT", "ENABLE_INSERT_MODE",
               "ENABLE_QUICK_EDIT_MODE", "ENABLE_VIRTUAL_TERMINAL_INPUT"}

OutputFlags == {"ENABLE_PROCESSED_OUTPUT", "ENABLE_WRAP_AT_EOL_OUTPUT",
                "ENABLE_VIRTUAL_TERMINAL_PROCESSING", "DISABLE_NEWLINE_AUTO_RETURN"}

AllBits == InputFlags \cup OutputFlags

\* !m on CONSOLE_MODE
BitNot(m) == AllBits \ m

\* console.rs:86-89, the input mode setup() asks for
SetupInMode(orig_in_mode) ==
    LET mode == BitNot({"ENABLE_LINE_INPUT", "ENABLE_ECHO_INPUT",
                        "ENABLE_INSERT_MODE", "ENABLE_PROCESSED_INPUT"})
                    \cup {"ENABLE_WINDOW_INPUT"}
    IN  mode \cap (orig_in_mode \cup {"ENABLE_VIRTUAL_TERMINAL_INPUT"})

\* console.rs:99-102, the output mode setup() asks for
SetupOutMode(orig_out_mode) ==
    orig_out_mode \cup {"ENABLE_PROCESSED_OUTPUT",
                        "ENABLE_VIRTUAL_TERMINAL_PROCESSING",
                        "DISABLE_NEWLINE_AUTO_RETURN"}

\* The four console settings, in the order setup() and restore() apply them.
SetCalls == {"cp", "ocp", "in", "out"}

\* The console state the program is started in (what GetConsoleCP,
\* GetConsoleOutputCP and GetConsoleMode report to Console::new): the
\* defaults of a console window, which setup() changes in all four settings.
InitConsoles ==
    { [cp |-> 437, ocp |-> 850,
       inMode |-> {"ENABLE_PROCESSED_INPUT", "ENABLE_LINE_INPUT", "ENABLE_ECHO_INPUT",
                   "ENABLE_MOUSE_INPUT", "ENABLE_INSERT_MODE", "ENABLE_QUICK_EDIT_MODE"},
       outMode |-> {"ENABLE_PROCESSED_OUTPUT", "ENABLE_WRAP_AT_EOL_OUTPUT"}] }

\* The fields of Console before Console::new has run.
NoSnapshot == [cp |-> 0, ocp |-> 0, inMode |-> {}, outMode |-> {}]

\* a setup() that returns the error of the input-mode call
SetupResult_InputFatal(c, o, fails) ==
    IF "cp" \in fails THEN [con |-> c, ok |-> FALSE]
    ELSE LET c1 == [c EXCEPT !.cp = UNICODE_UTF8_CP_ID] IN
    IF "ocp" \in fails THEN [con |-> c1, ok |-> FALSE]
    ELSE LET c2 == [c1 EXCEPT !.ocp = UNICODE_UTF8_CP_ID] IN
    IF "in" \in fails THEN [con |-> c2, ok |-> FALSE]
    ELSE LET c3 == [c2 EXCEPT !.inMode = SetupInMode(o.inMode)] IN
    IF "out" \in fails THEN [con |-> c3, ok |-> FALSE]
    ELSE [con |-> [c3 EXCEPT !.outMode = SetupOutMode(o.outMode)], ok |-> TRUE]

\* console.rs:81-114, Console::setup on console state c with snapshot o; the
\* system calls in `fails` fail.  A failed call leaves its setting as it was.
\* Result: the console state and whether setup returned Ok.
SetupResult(c, o, fails) ==
    IF "cp" \in fails THEN [con |-> c, ok |-> FALSE]
    ELSE LET c1 == [c EXCEPT !.cp = UNICODE_UTF8_CP_ID] IN
    IF "ocp" \in fails THEN [con |-> c1, ok |-> FALSE]
    ELSE LET c2 == [c1 EXCEPT !.ocp = UNICODE_UTF8_CP_ID]
             c3 == IF "in" \in fails THEN c2
                   ELSE [c2 EXCEPT !.inMode = SetupInMode(o.inMode)]
         IN
    IF "out" \in fails THEN [con |-> c3, ok |-> FALSE]
    ELSE [con |-> [c3 EXCEPT !.outMode = SetupOutMode(o.outMode)], ok |-> TRUE]

\* console.rs:71-79, Console::restore: four calls chained with `?`; `failing`
\* is the first system call that fails, or "none".
RestoreResult(c, o, failing) ==
    IF failing = "cp" THEN [con |-> c, ok |-> FALSE]
    ELSE LET c1 == [c EXCEPT !.cp = o.cp] IN
    IF failing = "ocp" THEN [con |-> c1, ok |-> FALSE]
    ELSE LET c2 == [c1 EXCEPT !.ocp = o.ocp] IN
    IF failing = "in" THEN [con |-> c2, ok |-> FALSE]
    ELSE LET c3 == [c2 EXCEPT !.inMode = o.inMode] IN
    IF failing = "out" THEN [con |-> c3, ok |-> FALSE]
    ELSE [con |-> [c3 EXCEPT !.outMode = o.outMode], ok |-> TRUE]

(***************************************************************************)
(* Byte streams.  The bytes are pairwise distinct so that a lost, repeated *)
(* or reordered byte shows.                                                *)
(***************************************************************************)
StdinStream == [i \in 1..MaxStdin |-> i]
ChanStream == [i \in 1..MaxChan |-> 100 + i]

Min(a, b) == IF a < b THEN a ELSE b

IsPrefix(s, t) == Len(s) =< Len(t) /\ SubSeq(t, 1, Len(s)) = s

Drop(s, n) == SubSeq(s, n + 1, Len(s))

VARIABLES
    wait,          \* args.wait
    redir,         \* args.redir is Some(path)
    mainPc,        \* position of main
    con,           \* the console's codepages and modes, as the OS holds them
    orig,          \* Console.orig_con_cp, orig_con_ocp, orig_in_mode, orig_out_mode
    setupCalls,    \* number of calls of Console::setup
    restoreCalls,  \* number of calls of Console::restore
    restoreFailed, \* the system call that failed in the last Console::restore, or "none"
    loggerOn,      \* log4rs was initialised: the log macros write
    loggerFile,    \* the logger has a FileAppender on args.redir
    file,          \* the bytes pipe_to_stdout appended to the file at args.redir
    fileLog,       \* the logger has appended records to the file at args.redir
    conOut,        \* the bytes pipe_to_stdout wrote to the console
    conLog,        \* the logger has written records to the console
    openLog,       \* outcomes of the calls of NamedPipe::open, in order
    openSleeps,    \* number of 100 ms sleeps taken by open_wait
    handles,       \* the channel handles the program holds
    chanConnected, \* the peer holds its end of the channel
    chanArrived,   \* number of bytes of ChanStream the peer has sent
    chanBuf,       \* bytes buffered in the channel, not yet read
    chanOut,       \* bytes the channel accepted from NamedPipe::write
    stdinTyped,    \* number of bytes of StdinStream typed so far
    stdinAvail,    \* console input typed and not yet read
    stdinEof,      \* console input is at end of file
    stdinRead,     \* bytes Console::read has returned to stdin_to_pipe
    stpPc,         \* position of stdin_to_pipe
    stpBuf,        \* buf of stdin_to_pipe
    abortPending,  \* a cancellation is pending on the read stdin_to_pipe is suspended in
    ptsPc,         \* position of pipe_to_stdout
    ptsAvail,      \* avail_bytes of NamedPipe::read
    ptsBuffer,     \* buffer of pipe_to_stdout
    ptsTaken,      \* bytes NamedPipe::read has returned to pipe_to_stdout
    ptsPassed,     \* bytes pipe_to_stdout has passed to Console::write
    cancelCalls    \* number of calls of Console::cancel_read

argVars == <<wait, redir>>
conVars == <<con, orig, setupCalls, restoreCalls, restoreFailed>>
logVars == <<loggerOn, loggerFile>>
outVars == <<file, fileLog, conOut, conLog>>
openVars == <<openLog, openSleeps, handles>>
chanVars == <<chanConnected, chanArrived, chanBuf, chanOut>>
stdinVars == <<stdinTyped, stdinAvail, stdinEof, stdinRead>>
stpVars == <<stpPc, stpBuf, abortPending>>
ptsVars == <<ptsPc, ptsAvail, ptsBuffer, ptsTaken, ptsPassed, cancelCalls>>

vars == <<argVars, mainPc, conVars, logVars, outVars, openVars, chanVars,
          stdinVars, stpVars, ptsVars>>

(***************************************************************************)
(* Logging (logger.rs).  The root logger has a console appender on stdout  *)
(* and, when args.redir is given, a file appender on that same path; each  *)
(* call of info!, warn! or error! appends one record to each.  Of the      *)
(* logger's records only this is kept per destination: whether the logger  *)
(* has written any.                                                        *)
(***************************************************************************)
\* whether the logger has written to the console after n more calls of a log macro
ConLogged(c, n) == c \/ (loggerOn /\ n > 0)

\* whether the logger has written to the file at args.redir after n more calls
FileLogged(f, n) == f \/ (loggerFile /\ n > 0)

\* n calls of a log macro
Log(n) ==
    /\ conLog' = ConLogged(conLog, n)
    /\ fileLog' = FileLogged(fileLog, n)

\* n calls of a log macro, and the pump writes nothing
LogOnly(n) ==
    /\ Log(n)
    /\ UNCHANGED <<file, conOut>>

Terminal == {"finished", "error"}

Init ==
    /\ wait \in BOOLEAN
    /\ redir \in BOOLEAN
    /\ mainPc = "start"
    /\ con \in InitConsoles
    /\ orig = NoSnapshot
    /\ setupCalls = 0
    /\ restoreCalls = 0
    /\ restoreFailed = "none"
    /\ loggerOn = FALSE
    /\ loggerFile = FALSE
    /\ file = <<>>
    /\ fileLog = FALSE
    /\ conOut = <<>>
    /\ conLog = FALSE
    /\ openLog = <<>>
    /\ openSleeps = 0
    /\ handles = {}
    /\ chanConnected = FALSE
    /\ chanArrived = 0
    /\ chanBuf = <<>>
    /\ chanOut = <<>>
    /\ stdinTyped = 0
    /\ stdinAvail = <<>>
    /\ stdinEof = FALSE
    /\ stdinRead = <<>>
    /\ stpPc = "idle"
    /\ stpBuf = <<>>
    /\ abortPending = FALSE
    /\ ptsPc = "idle"
    /\ ptsAvail = 0
    /\ ptsBuffer = <<>>
    /\ ptsTaken = <<>>
    /\ ptsPassed = <<>>
    /\ cancelCalls = 0

(***************************************************************************)
(* main (main.rs:113-176)                                                  *)
(***************************************************************************)

\* logger.rs:15-53 called at main.rs:116; its error is dropped by `let _ =`.
\* FileAppender::build opens args.redir for appending and may fail, and then
\* setup_logger returns before log4rs is initialised.
SetupLogger ==
    /\ mainPc = "start"
    /\ \E built \in BOOLEAN :
         /\ (~redir) => built
         /\ loggerOn' = built
         /\ loggerFile' = (built /\ redir)
         /\ conLog' = built
         /\ fileLog' = (built /\ redir)
    /\ UNCHANGED <<file, conOut>>
    /\ mainPc' = "new"
    /\ UNCHANGED <<argVars, conVars, openVars, chanVars, stdinVars, stpVars,
                   ptsVars>>

\* console.rs:48-69 called at main.rs:118-124
ConsoleNew ==
    /\ mainPc = "new"
    /\ \E ok \in BOOLEAN :
         IF ok
         THEN /\ orig' = [cp |-> con.cp, ocp |-> con.ocp,
                          inMode |-> con.inMode, outMode |-> con.outMode]
              /\ mainPc' = "setup"
              /\ UNCHANGED outVars
         ELSE /\ orig' = orig
              /\ mainPc' = "exited"
              /\ LogOnly(1)
    /\ UNCHANGED <<argVars, con, setupCalls, restoreCalls, restoreFailed, logVars,
                   openVars, chanVars, stdinVars, stpVars, ptsVars>>

\* console.rs:81-114 called at main.rs:126-134
ConsoleSetup ==
    /\ mainPc = "setup"
    /\ \E fails \in SUBSET SetCalls :
         LET r == SetupResult(con, orig, fails) IN
         /\ con' = r.con
         /\ mainPc' = IF r.ok THEN "open" ELSE "exited"
    /\ setupCalls' = setupCalls + 1
    /\ LogOnly(1)
    /\ UNCHANGED <<argVars, orig, restoreCalls, restoreFailed, logVars, openVars,
                   chanVars, stdinVars, stpVars, ptsVars>>

\* The outcomes of one NamedPipe::open (named_pipe.rs:142-160): the channel,
\* ERROR_FILE_NOT_FOUND, another error of the open, or an error of
\* SetNamedPipeHandleState after the handle was taken with into_raw_handle.
OpenOutcomes == {"Ok", "NotFound", "OpenErr", "StateErr"}

\* try_open that ignores `wait`: a NotFound is returned at once
TryOpenStep_IgnoresWait(w, outcome) ==
    IF outcome = "Ok" THEN "return_ok" ELSE "return_err"

\* named_pipe.rs:117-140, what try_open does with the outcome of one open:
\* return the channel, retry after a sleep, or return the error.
TryOpenStep(w, outcome) ==
    IF outcome = "Ok" THEN "return_ok"
    ELSE IF w /\ outcome = "NotFound" THEN "sleep"
    ELSE "return_err"

\* one iteration of try_open, called at main.rs:135-145
MainOpen ==
    /\ mainPc = "open"
    /\ Len(openLog) < MaxOpenAttempts
    /\ \E outcome \in OpenOutcomes :
         LET step == TryOpenStep(wait, outcome) IN
         /\ openLog' = Append(openLog, outcome)
         /\ handles' = IF outcome = "Ok" THEN handles \cup {"pipe_stp"}
                       ELSE IF outcome = "StateErr" THEN handles \cup {"raw"}
                       ELSE handles
         /\ chanConnected' = (outcome = "Ok")
         /\ mainPc' = CASE step = "return_ok" -> "clone"
                        [] step = "sleep" -> "open_sleep"
                        [] OTHER -> "exited"
         /\ LogOnly(IF step = "sleep" THEN 0 ELSE IF outcome = "StateErr" THEN 2 ELSE 1)
    /\ UNCHANGED <<argVars, conVars, logVars, openSleeps, chanArrived, chanBuf,
                   chanOut, stdinVars, stpVars, ptsVars>>

\* named_pipe.rs:131-133
MainOpenSleep ==
    /\ mainPc = "open_sleep"
    /\ openSleeps' = openSleeps + 1
    /\ mainPc' = "open"
    /\ UNCHANGED <<argVars, conVars, logVars, outVars, openLog, handles, chanVars,
                   stdinVars, stpVars, ptsVars>>

\* main.rs:146, pipe_stp.clone(): HandleDesc::clone unwraps try_clone
\* (named_pipe.rs:51-78), so a failed DuplicateHandle panics in main.
MainClone ==
    /\ mainPc = "clone"
    /\ \E ok \in BOOLEAN :
         /\ handles' = IF ok THEN handles \cup {"pipe_pts"} ELSE handles
         /\ mainPc' = IF ok THEN "spawn_stp" ELSE "panicked"
    /\ UNCHANGED <<argVars, conVars, logVars, outVars, openLog, openSleeps,
                   chanVars, stdinVars, stpVars, ptsVars>>

\* main.rs:148-154
MainSpawnStp ==
    /\ mainPc = "spawn_stp"
    /\ stpPc' = "loop"
    /\ mainPc' = "spawn_pts"
    /\ UNCHANGED <<argVars, conVars, logVars, outVars, openVars, chanVars,
                   stdinVars, stpBuf, abortPending, ptsVars>>

\* main.rs:156-165
MainSpawnPts ==
    /\ mainPc = "spawn_pts"
    /\ ptsPc' = "open_file"
    /\ mainPc' = "join_pts"
    /\ UNCHANGED <<argVars, conVars, logVars, outVars, openVars, chanVars,
                   stdinVars, stpVars, ptsAvail, ptsBuffer, ptsTaken, ptsPassed, cancelCalls>>

\* main.rs:167
MainJoinPts ==
    /\ mainPc = "join_pts"
    /\ ptsPc \in Terminal
    /\ mainPc' = "join_stp"
    /\ UNCHANGED <<argVars, conVars, logVars, outVars, openVars, chanVars,
                   stdinVars, stpVars, ptsVars>>

\* main that does not wait for stdin_to_pipe before it restores the console
MainJoinStp_NoWait ==
    /\ mainPc = "join_stp"
    /\ mainPc' = "restore"
    /\ UNCHANGED <<argVars, conVars, logVars, outVars, openVars, chanVars,
                   stdinVars, stpVars, ptsVars>>

\* main.rs:168
MainJoinStp ==
    /\ mainPc = "join_stp"
    /\ stpPc \in Terminal
    /\ mainPc' = "restore"
    /\ UNCHANGED <<argVars, conVars, logVars, outVars, openVars, chanVars,
                   stdinVars, stpVars, ptsVars>>

\* console.rs:71-79 called at main.rs:170-175
MainRestore ==
    /\ mainPc = "restore"
    /\ \E failing \in SetCalls \cup {"none"} :
         LET r == RestoreResult(con, orig, failing) IN
         /\ con' = r.con
         /\ restoreFailed' = failing
         /\ LogOnly(IF r.ok THEN 0 ELSE 1)
    /\ restoreCalls' = restoreCalls + 1
    /\ mainPc' = "exited"
    /\ UNCHANGED <<argVars, orig, setupCalls, logVars, openVars, chanVars,
                   stdinVars, stpVars, ptsVars>>

Alive == mainPc \notin {"exited", "panicked"}

(***************************************************************************)
(* stdin_to_pipe (main.rs:42-68)                                           *)
(***************************************************************************)

\* main.rs:47-48: a fresh buffer, and the thread enters Console::read
\* (console.rs:131-144), where it is suspended in ReadFile.
StpEnterRead ==
    /\ stpPc = "loop"
    /\ stpPc' = "in_read"
    /\ stpBuf' = <<>>
    /\ UNCHANGED <<argVars, mainPc, conVars, logVars, outVars, openVars, chanVars,
                   stdinVars, abortPending, ptsVars>>

\* main.rs:49, 64: ReadFile returns n > 0 bytes of the pending console input,
\* at most the buffer's length; buf is truncated to them.
StpReadOk ==
    /\ stpPc = "in_read"
    /\ ~abortPending
    /\ stdinAvail # <<>>
    /\ \E n \in 1..Min(Len(stdinAvail), StdinBufLen) :
         /\ stpBuf' = SubSeq(stdinAvail, 1, n)
         /\ stdinRead' = stdinRead \o SubSeq(stdinAvail, 1, n)
         /\ stdinAvail' = Drop(stdinAvail, n)
    /\ stpPc' = "write"
    /\ UNCHANGED <<argVars, mainPc, conVars, logVars, outVars, openVars, chanVars,
                   stdinTyped, stdinEof, abortPending, ptsVars>>

\* main.rs:49, 64: ReadFile returns Ok with n = 0 at the end of the console input
StpReadEof ==
    /\ stpPc = "in_read"
    /\ ~abortPending
    /\ stdinAvail = <<>>
    /\ stdinEof
    /\ stpBuf' = <<>>
    /\ stpPc' = "write"
    /\ UNCHANGED <<argVars, mainPc, conVars, logVars, outVars, openVars, chanVars,
                   stdinVars, abortPending, ptsVars>>

\* a pump that returns Interrupted as its error
StpReadInterrupted_Ends ==
    /\ stpPc = "in_read"
    /\ ~abortPending
    /\ stpPc' = "error"
    /\ LogOnly(1)
    /\ UNCHANGED <<argVars, mainPc, conVars, logVars, openVars, chanVars,
                   stdinVars, stpBuf, abortPending, ptsVars>>

\* main.rs:50-54: STATUS_INTERRUPTED
StpReadInterrupted ==
    /\ stpPc = "in_read"
    /\ ~abortPending
    /\ stpPc' = "sleep"
    /\ LogOnly(1)
    /\ UNCHANGED <<argVars, mainPc, conVars, logVars, openVars, chanVars,
                   stdinVars, stpBuf, abortPending, ptsVars>>

\* main.rs:52-53: the 100 ms sleep ends and the loop continues
StpSleep ==
    /\ stpPc = "sleep"
    /\ stpPc' = "loop"
    /\ UNCHANGED <<argVars, mainPc, conVars, logVars, outVars, openVars, chanVars,
                   stdinVars, stpBuf, abortPending, ptsVars>>

\* main.rs:55-58: ERROR_OPERATION_ABORTED, the effect of a cancellation
StpReadAborted ==
    /\ stpPc = "in_read"
    /\ abortPending
    /\ abortPending' = FALSE
    /\ stpPc' = "finished"
    /\ LogOnly(1)
    /\ UNCHANGED <<argVars, mainPc, conVars, logVars, openVars, chanVars,
                   stdinVars, stpBuf, ptsVars>>

\* main.rs:59-62 and 151-153: any other error of the console read
StpReadError ==
    /\ stpPc = "in_read"
    /\ ~abortPending
    /\ stpPc' = "error"
    /\ LogOnly(2)
    /\ UNCHANGED <<argVars, mainPc, conVars, logVars, openVars, chanVars,
                   stdinVars, stpBuf, abortPending, ptsVars>>

\* The byte counts WriteFile may report for a buffer on a connected channel.
WriteCounts(buf) == IF buf = <<>> THEN {0} ELSE 1..Len(buf)

\* named_pipe.rs:209-233, NamedPipe::write of buf when the system call
\* transfers k bytes: one WriteFile, and its count is returned.
NamedPipeWrite(buf, k) == [accepted |-> SubSeq(buf, 1, k), ret |-> k]

\* main.rs:66 and 151-153: pipe.write(&buf)?; the count it returns is dropped,
\* and buf goes out of scope.
StpWrite ==
    /\ stpPc = "write"
    /\ stpBuf' = <<>>
    /\ \/ /\ chanConnected
          /\ \E k \in WriteCounts(stpBuf) :
               chanOut' = chanOut \o NamedPipeWrite(stpBuf, k).accepted
          /\ stpPc' = "loop"
          /\ UNCHANGED outVars
       \/ /\ chanOut' = chanOut
          /\ stpPc' = "error"
          /\ LogOnly(1)
    /\ UNCHANGED <<argVars, mainPc, conVars, logVars, openVars, chanConnected,
                   chanArrived, chanBuf, stdinVars, abortPending, ptsVars>>

(***************************************************************************)
(* pipe_to_stdout (main.rs:70-111)                                         *)
(***************************************************************************)

\* main.rs:75-84 and 161-163
PtsOpenFile ==
    /\ ptsPc = "open_file"
    /\ \E ok \in BOOLEAN :
         /\ (~redir) => ok
         /\ ptsPc' = IF ok THEN "probe" ELSE "error"
         /\ LogOnly(IF ok THEN 0 ELSE 1)
    /\ UNCHANGED <<argVars, mainPc, conVars, logVars, openVars, chanVars, stdinVars,
                   stpVars, ptsAvail, ptsBuffer, ptsTaken, ptsPassed,
                   cancelCalls>>

\* a pump that takes a read of zero bytes for the end of the stream
AfterRead_ZeroEnds(result) ==
    CASE result = "Ok0" -> "finished"
      [] result = "OkN" -> "con_write"
      [] result = "Disconnected" -> "cancel"
      [] OTHER -> "error"

\* What pipe_to_stdout does with a result of pipe.read (main.rs:88-104).
AfterRead(result) ==
    CASE result = "Ok0" -> "sleep"
      [] result = "OkN" -> "con_write"
      [] result = "Disconnected" -> "cancel"
      [] OTHER -> "error"

\* log records written for a result of pipe.read (main.rs:96, 101, 162)
ReadLogs(result) ==
    CASE result = "Disconnected" -> 1
      [] result = "Err" -> 2
      [] OTHER -> 0

\* main.rs:87-88 and named_pipe.rs:162-185: a fresh (empty) buffer, then the probe
\* get_available_byte_count()? of NamedPipe::read
PtsProbe ==
    /\ ptsPc = "probe"
    /\ \E result \in {"Ok", "Disconnected", "Err"} :
         /\ (result = "Ok") => chanConnected
         /\ (result = "Disconnected") => ~chanConnected
         /\ IF result = "Ok"
            THEN /\ ptsAvail' = Len(chanBuf)
                 /\ ptsPc' = "readfile"
                 /\ UNCHANGED outVars
            ELSE /\ ptsAvail' = ptsAvail
                 /\ ptsPc' = AfterRead(result)
                 /\ LogOnly(ReadLogs(result))
    /\ UNCHANGED <<argVars, mainPc, conVars, logVars, openVars, chanVars, stdinVars,
                   stpVars, ptsBuffer, ptsTaken, ptsPassed, cancelCalls>>

\* a read that empties the channel but returns only the bytes the probe counted
NamedPipeRead_DropsLate(buf, avail) ==
    [buffer |-> SubSeq(buf, 1, avail), rest |-> <<>>, n |-> avail]

\* named_pipe.rs:185-207: the buffer is resized to avail_bytes and ReadFile
\* fills it from the front of the channel's buffer; bytes that arrived since
\* the probe stay in the channel.
NamedPipeRead(buf, avail) ==
    [buffer |-> SubSeq(buf, 1, avail), rest |-> Drop(buf, avail), n |-> avail]

\* named_pipe.rs:185-207 and main.rs:88-94: NamedPipe::read returns Ok(n)
PtsReadFileOk ==
    /\ ptsPc = "readfile"
    /\ chanConnected
    /\ LET r == NamedPipeRead(chanBuf, ptsAvail)
           result == IF r.n = 0 THEN "Ok0" ELSE "OkN"
       IN  /\ ptsBuffer' = r.buffer
           /\ chanBuf' = r.rest
           /\ ptsTaken' = ptsTaken \o r.buffer
           /\ ptsPc' = AfterRead(result)
    /\ ptsAvail' = 0
    /\ UNCHANGED <<argVars, mainPc, conVars, logVars, outVars, openVars,
                   chanConnected, chanArrived, chanOut, stdinVars, stpVars,
                   ptsPassed, cancelCalls>>

\* named_pipe.rs:195-204 and main.rs:95-103: ReadFile or GetOverlappedResult
\* fails, with ERROR_PIPE_NOT_CONNECTED once the peer is gone
PtsReadFileErr ==
    /\ ptsPc = "readfile"
    /\ \E result \in {"Disconnected", "Err"} :
         /\ (result = "Disconnected") => ~chanConnected
         /\ ptsPc' = AfterRead(result)
         /\ LogOnly(ReadLogs(result))
    /\ ptsAvail' = 0
    /\ UNCHANGED <<argVars, mainPc, conVars, logVars, openVars, chanVars,
                   stdinVars, stpVars, ptsBuffer, ptsTaken, ptsPassed, cancelCalls>>

PtsReadFile == PtsReadFileOk \/ PtsReadFileErr

\* main.rs:91-92: the 100 ms sleep ends and the loop continues
PtsSleep ==
    /\ ptsPc = "sleep"
    /\ ptsPc' = "probe"
    /\ UNCHANGED <<argVars, mainPc, conVars, logVars, outVars, openVars, chanVars,
                   stdinVars, stpVars, ptsAvail, ptsBuffer, ptsTaken, ptsPassed, cancelCalls>>

\* Console::cancel_read: a read is aborted when a thread is suspended inside
\* Console::read at the time of the call.
CancelRead(readerPc) == readerPc = "in_read"

\* main.rs:97-98 and 161-163: con.cancel_read()?; break Ok(())
PtsCancel ==
    /\ ptsPc = "cancel"
    /\ cancelCalls' = cancelCalls + 1
    /\ \E ok \in BOOLEAN :
         IF ok
         THEN /\ abortPending' = (abortPending \/ CancelRead(stpPc))
              /\ ptsPc' = "finished"
              /\ UNCHANGED outVars
         ELSE /\ abortPending' = abortPending
              /\ ptsPc' = "error"
              /\ LogOnly(1)
    /\ UNCHANGED <<argVars, mainPc, conVars, logVars, openVars, chanVars, stdinVars,
                   stpPc, stpBuf, ptsAvail, ptsBuffer, ptsTaken,
                   ptsPassed>>

\* a pump that appends the chunk to the file whatever Console::write returned
PtsConWrite_IgnoresError ==
    /\ ptsPc = "con_write"
    /\ ptsPassed' = ptsPassed \o ptsBuffer
    /\ \E ok \in BOOLEAN :
         /\ conOut' = IF ok THEN conOut \o ptsBuffer ELSE conOut
         /\ UNCHANGED <<file, fileLog, conLog>>
         /\ ptsPc' = IF redir THEN "file_write" ELSE "probe"
         /\ ptsBuffer' = IF redir THEN ptsBuffer ELSE <<>>
    /\ UNCHANGED <<argVars, mainPc, conVars, logVars, openVars, chanVars, stdinVars,
                   stpVars, ptsAvail, ptsTaken, cancelCalls>>

\* console.rs:116-129 called at main.rs:106 (and 161-163 on its error)
PtsConWrite ==
    /\ ptsPc = "con_write"
    /\ ptsPassed' = ptsPassed \o ptsBuffer
    /\ \E ok \in BOOLEAN :
         IF ok
         THEN /\ conOut' = conOut \o ptsBuffer
              /\ UNCHANGED <<file, fileLog, conLog>>
              /\ ptsPc' = IF redir THEN "file_write" ELSE "probe"
              /\ ptsBuffer' = IF redir THEN ptsBuffer ELSE <<>>
         ELSE /\ ptsPc' = "error"
              /\ ptsBuffer' = <<>>
              /\ LogOnly(1)
    /\ UNCHANGED <<argVars, mainPc, conVars, logVars, openVars, chanVars, stdinVars,
                   stpVars, ptsAvail, ptsTaken, cancelCalls>>

\* main.rs:107-109 (and 161-163 on its error): write_all appends the buffer;
\* when it fails, a part of the buffer may have been appended before.
PtsFileWrite ==
    /\ ptsPc = "file_write"
    /\ ptsBuffer' = <<>>
    /\ \E n \in 0..Len(ptsBuffer) :
         IF n = Len(ptsBuffer)
         THEN /\ file' = file \o ptsBuffer
              /\ UNCHANGED <<fileLog, conOut, conLog>>
              /\ ptsPc' = "probe"
         ELSE /\ file' = file \o SubSeq(ptsBuffer, 1, n)
              /\ conOut' = conOut
              /\ Log(1)
              /\ ptsPc' = "error"
    /\ UNCHANGED <<argVars, mainPc, conVars, logVars, openVars, chanVars, stdinVars,
                   stpVars, ptsAvail, ptsTaken, ptsPassed,
                   cancelCalls>>

(***************************************************************************)
(* The environment: the user at the console and the peer on the channel.   *)
(* Console input typed before stdin_to_pipe exists waits in the console's  *)
(* input buffer, so it is taken to arrive once the pump has been spawned.  *)
(***************************************************************************)
\* the user types the next byte
ConsoleInput ==
    /\ Alive
    /\ stpPc # "idle"
    /\ ~stdinEof
    /\ stdinTyped < MaxStdin
    /\ stdinTyped' = stdinTyped + 1
    /\ stdinAvail' = Append(stdinAvail, StdinStream[stdinTyped + 1])
    /\ UNCHANGED <<argVars, mainPc, conVars, logVars, outVars, openVars, chanVars,
                   stdinEof, stdinRead, stpVars, ptsVars>>

\* the console input reaches its end
ConsoleEof ==
    /\ Alive
    /\ stpPc # "idle"
    /\ ~stdinEof
    /\ stdinEof' = TRUE
    /\ UNCHANGED <<argVars, mainPc, conVars, logVars, outVars, openVars, chanVars,
                   stdinTyped, stdinAvail, stdinRead, stpVars, ptsVars>>

\* the peer sends the next byte
ChanArrive ==
    /\ Alive
    /\ chanConnected
    /\ chanArrived < MaxChan
    /\ chanArrived' = chanArrived + 1
    /\ chanBuf' = Append(chanBuf, ChanStream[chanArrived + 1])
    /\ UNCHANGED <<argVars, mainPc, conVars, logVars, outVars, openVars,
                   chanConnected, chanOut, stdinVars, stpVars, ptsVars>>

\* the peer closes its end of the channel
PeerDisconnect ==
    /\ Alive
    /\ chanConnected
    /\ chanConnected' = FALSE
    /\ UNCHANGED <<argVars, mainPc, conVars, logVars, outVars, openVars,
                   chanArrived, chanBuf, chanOut, stdinVars, stpVars, ptsVars>>

(***************************************************************************)
(* Specifications                                                          *)
(***************************************************************************)
MainNext ==
    \/ SetupLogger \/ ConsoleNew \/ ConsoleSetup \/ MainOpen \/ MainOpenSleep
    \/ MainClone \/ MainSpawnStp \/ MainSpawnPts \/ MainJoinPts \/ MainJoinStp
    \/ MainRestore

\* the steps of stdin_to_pipe that a call returning normally allows
StpProgress ==
    \/ StpEnterRead \/ StpReadOk \/ StpReadEof \/ StpSleep \/ StpReadAborted
    \/ StpWrite

PtsNext ==
    \/ PtsOpenFile \/ PtsProbe \/ PtsReadFile \/ PtsSleep \/ PtsCancel
    \/ PtsConWrite \/ PtsFileWrite

EnvNext == ConsoleInput \/ ConsoleEof \/ ChanArrive \/ PeerDisconnect

Next ==
    \/ MainNext
    \/ StpProgress \/ StpReadInterrupted \/ StpReadError
    \/ PtsNext
    \/ EnvNext

Spec == Init /\ [][Next]_vars

\* Every thread that can take a step eventually takes one.  Nothing is
\* assumed of the environment: no input, no channel data, no disconnection
\* and no failing system call is ever bound to happen.
FairSpec ==
    /\ Spec
    /\ WF_vars(MainNext)
    /\ WF_vars(StpProgress)
    /\ WF_vars(PtsNext)

(***************************************************************************)
(* Properties                                                              *)
(***************************************************************************)
ProcessEnded == mainPc \in {"exited", "panicked"}

\* both pumps have been spawned
Spawned == ptsPc # "idle"

\* C1: on every exit path of main taken after Console::setup() was called
\* (setup failing, try_open failing, the handle duplication failing, the pumps
\* ending either way), Console::restore() has been called exactly once when
\* the process ends.
C1_RestoreOnEveryExit ==
    (ProcessEnded /\ setupCalls > 0) => restoreCalls = 1

\* C2: after a call of Console::restore() every one of the four settings
\* whose own system call did not fail equals the value Console::new()
\* captured: a failure to reapply one setting leaves none of the others
\* un-restored.
C2_RestoreReappliesAll ==
    restoreCalls > 0 =>
        /\ (restoreFailed # "cp") => con.cp = orig.cp
        /\ (restoreFailed # "ocp") => con.ocp = orig.ocp
        /\ (restoreFailed # "in") => con.inMode = orig.inMode
        /\ (restoreFailed # "out") => con.outMode = orig.outMode

\* C3: once pipe_to_stdout has observed Disconnected and cancel_read() has
\* returned, stdin_to_pipe ends without further console input: in every state
\* after the call it is in a terminal state or able to take its next step with
\* the input it already has, wherever it was when cancel_read() ran.
C3_CancelEndsStdinPump ==
    (ptsPc = "finished") => (stpPc \in Terminal \/ ENABLED StpProgress)

\* C4: when either pump has ended with a fatal error, the sibling pump ends
\* too and main exits, whatever the environment does or does not do after.
C4_FatalErrorEndsProcess ==
    (stpPc = "error" \/ ptsPc = "error") ~> (mainPc = "exited")

\* C5: the bytes the channel accepted are at every moment a prefix of the
\* bytes Console::read returned, and between two reads (the write of the last
\* chunk has returned Ok) they are all of them.
C5_ChannelGetsBytesRead ==
    /\ IsPrefix(chanOut, stdinRead)
    /\ (stpPc \in {"loop", "in_read", "sleep"}) => chanOut = stdinRead

\* C7: when a redirection path is given, pipe_to_stdout is the only writer of
\* that file: the logger appends nothing to it.
C7_PumpIsOnlyWriter ==
    redir => ~fileLog

OpenReturned == openLog # <<>> /\ mainPc \notin {"open", "open_sleep"}

NotFounds == Cardinality({i \in DOMAIN openLog : openLog[i] = "NotFound"})

\* C8: try_open(name, wait).  An open attempt is followed by another only when
\* wait is set and the attempt gave NotFound, and then after one sleep; while
\* try_open has not returned every attempt so far gave NotFound; with wait it
\* never returns NotFound; it returns the channel exactly when the last attempt
\* succeeded, and the error of the last attempt otherwise, upon which main
\* exits; without wait there is exactly one attempt.
C8_TryOpen ==
    /\ \A i \in 1..(Len(openLog) - 1) : wait /\ openLog[i] = "NotFound"
    /\ (mainPc \in {"open", "open_sleep"} /\ openLog # <<>>) =>
           (wait /\ \A i \in DOMAIN openLog : openLog[i] = "NotFound")
    /\ openSleeps = IF ~wait THEN 0
                    ELSE IF mainPc = "open_sleep" THEN NotFounds - 1
                    ELSE NotFounds
    /\ OpenReturned =>
         LET last == openLog[Len(openLog)] IN
         /\ wait => last # "NotFound"
         /\ (~wait) => Len(openLog) = 1
         /\ (last = "Ok") <=> ("pipe_stp" \in handles)
         /\ (last # "Ok") => mainPc = "exited"

\* with wait, a NotFound was retried after a sleep and the second open succeeded
C8_Witness ==
    /\ wait
    /\ openLog = <<"NotFound", "Ok">>
    /\ openSleeps = 1
    /\ mainPc = "clone"

\* C9: when the probe reported 0 bytes and the read returns Ok, pipe_to_stdout
\* goes to its sleep and writes nothing to the console or the file, and from
\* the sleep it goes back to the probe: a count of 0 never ends the pump.
C9_ZeroAvailKeepsRunning ==
    [][ /\ (PtsReadFileOk /\ ptsAvail = 0) =>
              /\ ptsPc' = "sleep"
              /\ conOut' = conOut /\ file' = file /\ ptsPassed' = ptsPassed
        /\ (ptsPc = "sleep" /\ ptsPc' # "sleep") =>
              /\ ptsPc' = "probe"
              /\ conOut' = conOut /\ file' = file /\ ptsPassed' = ptsPassed
      ]_vars

\* the pump sleeps after a read of zero bytes on a connected channel
C9_Witness ==
    /\ ptsPc = "sleep"
    /\ chanConnected
    /\ chanBuf = <<>>

\* C10: once both pumps are spawned, restore() is called only when both pumps
\* are in a terminal state; when both are, main can go on to it, and main
\* does not exit without having called it once; after restore() no pump reads
\* from or writes to the console.
C10_RestoreAfterBothPumps ==
    /\ [](restoreCalls > 0 => (stpPc \in Terminal /\ ptsPc \in Terminal))
    /\ []((Spawned /\ mainPc = "exited") => restoreCalls = 1)
    /\ []((Spawned /\ stpPc \in Terminal /\ ptsPc \in Terminal /\ mainPc # "exited")
             => ENABLED MainNext)
    /\ [][restoreCalls > 0 =>
             (conOut' = conOut /\ stdinRead' = stdinRead /\ ptsPassed' = ptsPassed)]_vars

\* the console was restored after both pumps had ended with an error
C10_Witness ==
    /\ mainPc = "exited"
    /\ restoreCalls = 1
    /\ stpPc = "error"
    /\ ptsPc = "error"

\* C11: a console read in stdin_to_pipe that returns Ok with n = 0 bytes ends
\* the pump in the state Finished: the step in which the read returns 0 takes
\* the pump to "finished", so nothing is written and the console is not read
\* again.
C11_ZeroReadFinishes ==
    [][StpReadEof => stpPc' = "finished"]_vars

\* C12: the pump that observes the peer's disconnection ends in "finished",
\* not in "error": pipe_to_stdout, when its pipe read reports Disconnected,
\* goes on to call cancel_read() and leaves that call for a terminal state;
\* stdin_to_pipe, when its pipe write fails on the disconnected channel, ends
\* in "finished" as well.
C12_DisconnectIsGraceful ==
    [][ /\ (PtsNext /\ ptsPc \in {"probe", "readfile"} /\ ~chanConnected
               /\ ptsPc' # "error")
              => ptsPc' = "cancel"
        /\ PtsCancel => (cancelCalls' = cancelCalls + 1 /\ ptsPc' \in Terminal)
        /\ (StpWrite /\ ~chanConnected) => stpPc' = "finished"
      ]_vars

\* the input mode the description of setup() gives for an original mode m
ClaimedInMode(m) ==
    (m \ {"ENABLE_LINE_INPUT", "ENABLE_ECHO_INPUT", "ENABLE_INSERT_MODE",
          "ENABLE_PROCESSED_INPUT"})
        \cup {"ENABLE_WINDOW_INPUT", "ENABLE_VIRTUAL_TERMINAL_INPUT"}

\* C13: the input mode Console::setup() applies is the original mode minus
\* {line-input, echo-input, insert-mode, processed-input} plus {window-input,
\* virtual-terminal-input}: a call of setup() either leaves the console's
\* input mode as it was (its system call failed or was not reached) or sets
\* it to that value, with both added flags present.
C13_SetupInputMode ==
    [][ConsoleSetup =>
          (con'.inMode = con.inMode \/ con'.inMode = ClaimedInMode(orig.inMode))]_vars

\* setup() was called and did not set the output mode, and restore() has not run
SetupFailed ==
    setupCalls = 1 /\ restoreCalls = 0 /\ con.outMode # SetupOutMode(orig.outMode)

\* setup() was called and set the output mode, and restore() has not run
SetupSucceeded ==
    setupCalls = 1 /\ restoreCalls = 0 /\ con.outMode = SetupOutMode(orig.outMode)

\* C14: in Console::setup() a failure to set the input mode is not fatal: the
\* output mode is still set, setup() returns Ok when that call succeeds, and
\* main goes on to open the channel; setup() returns Ok exactly when the two
\* codepage calls and the output-mode call succeed.  When setup() has failed,
\* main has exited without an open attempt, a channel handle or a pump.
C14_SetupFailures ==
    /\ (mainPc = "setup") =>
          \A fails \in SUBSET SetCalls :
             LET r == SetupResult(con, orig, fails) IN
             /\ r.ok <=> (fails \cap {"cp", "ocp", "out"} = {})
             /\ r.ok => r.con.outMode = SetupOutMode(orig.outMode)
             /\ (r.ok /\ "in" \in fails) => r.con.inMode = con.inMode
    /\ SetupFailed =>
          /\ mainPc = "exited"
          /\ openLog = <<>> /\ handles = {}
          /\ stpPc = "idle" /\ ptsPc = "idle"
    /\ SetupSucceeded => (mainPc # "exited" \/ openLog # <<>>)

\* the input mode could not be set, the output mode was, and the pumps run
C14_Witness ==
    /\ SetupSucceeded
    /\ con.inMode = orig.inMode
    /\ con.outMode # orig.outMode
    /\ stpPc = "in_read"
    /\ ptsPc = "probe"

\* NamedPipe::try_open has returned the channel
ChannelOpened == "pipe_stp" \in handles

\* C15: the console is put into raw mode only after the channel was opened:
\* Console::setup() is not called, and no codepage or mode of the console
\* differs from what Console::new() captured, unless try_open has returned
\* the channel; a failed connect leaves the console unmodified.
C15_RawModeAfterOpen ==
    /\ (setupCalls > 0) => ChannelOpened
    /\ (orig # NoSnapshot /\ con # orig) => ChannelOpened

\* C16: NamedPipe::write returns Ok only after every byte of its buffer was
\* written to the channel: a step in which the write of stdin_to_pipe returns
\* Ok appends the whole buffer to what the channel has accepted.
C16_WriteIsComplete ==
    [][(StpWrite /\ stpPc' = "loop") => chanOut' = chanOut \o stpBuf]_vars

\* C17: when Console::read reports Interrupted, stdin_to_pipe goes to its
\* sleep, neither ending nor failing; the steps into the sleep and out of it
\* write nothing to the channel and consume no console input, and from the
\* sleep the pump goes back to the head of its loop and from there into
\* Console::read again.  The three steps form a cycle, so this holds for any
\* number of consecutive Interrupted results.
C17_InterruptedIsRetried ==
    [][ /\ StpReadInterrupted =>
              stpPc' = "sleep"
        /\ (stpPc = "in_read" /\ stpPc' = "sleep") =>
              /\ chanOut' = chanOut
              /\ stdinRead' = stdinRead /\ stdinAvail' = stdinAvail
        /\ (stpPc = "sleep" /\ stpPc' # "sleep") =>
              /\ stpPc' = "loop"
              /\ chanOut' = chanOut
              /\ stdinRead' = stdinRead /\ stdinAvail' = stdinAvail
        /\ (stpPc = "loop" /\ stpPc' # "loop") =>
              stpPc' = "in_read"
      ]_vars

\* the pump sleeps after an Interrupted read that followed a relayed chunk,
\* with the next byte of input still pending
C17_Witness ==
    /\ stpPc = "sleep"
    /\ stdinRead = <<StdinStream[1]>>
    /\ chanOut = <<StdinStream[1]>>
    /\ stdinAvail = <<StdinStream[2]>>

\* C18: every channel handle the program created, the one try_open returned
\* and its duplicate, has been closed by the program when both pumps have
\* reached a terminal state and main has finished: the program then holds
\* neither.
C18_HandlesClosed ==
    (mainPc = "exited" /\ stpPc \in Terminal /\ ptsPc \in Terminal)
        => handles \cap {"pipe_stp", "pipe_pts"} = {}

\* C19: with a redirection file, pipe_to_stdout passes each chunk to
\* Console::write before it appends it to the file, and appends it only when
\* the console write returned Ok: the bytes appended to the file are a prefix
\* of the bytes passed to Console::write and of the bytes the console took;
\* they are all of them except for the one chunk in flight between the two
\* writes, or after an error has ended the pump.
C19_FileFollowsConsole ==
    /\ IsPrefix(file, ptsPassed)
    /\ IsPrefix(file, conOut)
    /\ (~redir) => file = <<>>
    /\ (redir /\ ptsPc = "file_write") =>
          (file \o ptsBuffer = ptsPassed /\ conOut = ptsPassed)
    /\ (redir /\ ptsPc \notin {"file_write", "error"}) => file = ptsPassed

\* the second chunk was written to the console and is about to be appended to
\* the file, which holds the first
C19_Witness ==
    /\ redir
    /\ ptsPc = "file_write"
    /\ ptsBuffer = <<ChanStream[2]>>
    /\ ptsPassed = <<ChanStream[1], ChanStream[2]>>
    /\ file = <<ChanStream[1]>>

====
